---- MODULE Spec2Model ----
(***************************************************************************)
(* DataProcessing (src/src/data_processing.py): a linear pipeline that     *)
(* loads a CSV table, label-encodes its string columns, keeps the five     *)
(* features with the best chi-squared score, splits and standardises the   *)
(* data and writes five artifacts.                                         *)
(*                                                                         *)
(* Rows are numbered 1..n (pandas' index 0..n-1 plus one).  Numbers that   *)
(* the libraries keep as floats are kept exactly: a chi-squared score is   *)
(* a fraction <<num, den>>, a standardised value is <<num, den2, n>>.      *)
(***************************************************************************)
EXTENDS Integers, Sequences, FiniteSets, TLC

\* ------------------------------------------------------------------ bounds
NumRows == 6        \* rows of the input table
MaxFeatures == 8    \* feature columns of the input table: 0..MaxFeatures

\* --------------------------------------------------------------- constants
TopK == 5           \* chi2_scores.head(5)
TestDen == 5        \* test_size = 0.2 = 1/TestDen

\* ----------------------------------------------------------- small helpers
Min(a, b) == IF a <= b THEN a ELSE b

Range(s) == {s[i] : i \in DOMAIN s}

RECURSIVE SumSeq(_)
SumSeq(s) == IF s = <<>> THEN 0 ELSE Head(s) + SumSeq(Tail(s))

SetMax(S) == CHOOSE x \in S : \A z \in S : z <= x
SetMin(S) == CHOOSE x \in S : \A z \in S : x <= z

\* the elements of a set of integers, ascending / descending
RECURSIVE SortedAsc(_)
SortedAsc(S) == IF S = {} THEN <<>> ELSE <<SetMin(S)>> \o SortedAsc(S \ {SetMin(S)})
RECURSIVE SortedDesc(_)
SortedDesc(S) == IF S = {} THEN <<>> ELSE <<SetMax(S)>> \o SortedDesc(S \ {SetMax(S)})

\* the positions of s that hold v, ascending (np.where(s == v))
WhereEq(s, v) == SortedAsc({i \in DOMAIN s : s[i] = v})

\* ------------------------------------------- the seeded generator (seed 42)
\* train_test_split(..., random_state=42) builds numpy's RandomState(42): the
\* Mersenne Twister MT19937 seeded with 42.  Its successive 32-bit outputs,
\* each reduced to its low 8 bits (random_interval masks an output with
\* 2^k - 1 >= max, and max stays below 256 for the tables modelled).
MT19937_42 ==
  << 102, 179,  92,  14, 106,  71, 188,  20, 102, 121, 210, 214,  74, 202,  87, 116,
      99, 103, 151, 130, 149,  52,   1,  87, 235, 157,  37, 129, 191, 187,  20, 160,
     203,  57,  21, 252, 235,  88,  48, 218,  58, 254, 169, 255, 219, 187, 207,  14,
     189, 189, 174, 189,  50, 107,  54, 243,  63, 248, 130, 228,  50, 134,  20,  72 >>

\* the smallest 2^k - 1 that is >= max
RECURSIVE MaskFrom(_, _)
MaskFrom(m, max) == IF m >= max THEN m ELSE MaskFrom(2 * m + 1, max)

\* numpy's random_interval: a uniform draw from 0..max by masked rejection.
\* pos is the position in the generator's output stream; the result carries
\* the position after the draw.
RECURSIVE random_interval(_, _)
Accept(v, max, pos) ==
  IF v <= max THEN [v |-> v, pos |-> pos + 1] ELSE random_interval(max, pos + 1)
random_interval(max, pos) == Accept(MT19937_42[pos] % (MaskFrom(1, max) + 1), max, pos)

\* RandomState.shuffle: for i = n-1 downto 1: j = random_interval(i); swap
\* (positions are 1-based here: i = n downto 2, j = draw + 1).
RECURSIVE shuffle(_, _, _)
Swap(arr, i, r) ==
  shuffle([arr EXCEPT ![i] = arr[r.v + 1], ![r.v + 1] = arr[i]], i - 1, r.pos)
shuffle(arr, i, pos) ==
  IF i < 2 THEN [arr |-> arr, pos |-> pos] ELSE Swap(arr, i, random_interval(i - 1, pos))

\* RandomState.permutation(x): a shuffled copy of x
permutation(arr, pos) == shuffle(arr, Len(arr), pos)

Iota(n) == [i \in 1..n |-> i]

\* RandomState.choice(inds, size, replace=False): permutation(len)[:size]
Pick(inds, size, p) == [arr |-> [i \in 1..size |-> inds[p.arr[i]]], pos |-> p.pos]
choice(inds, size, pos) == Pick(inds, size, permutation(Iota(Len(inds)), pos))

\* ------------------------------------------------------ train_test_split
\* _validate_shuffle_split with test_size = 0.2 and train_size = None
n_test_of(n) == (n + TestDen - 1) \div TestDen
n_train_of(n) == n - n_test_of(n)

SplitFailed(cause) == [ok |-> FALSE, cause |-> cause, train |-> <<>>, test |-> <<>>]
SplitInto(train, test) == [ok |-> TRUE, cause |-> "", train |-> train, test |-> test]

\* ShuffleSplit: test = permutation[:n_test], train = permutation[n_test:]
Cut(p, n) == SplitInto(SubSeq(p, n_test_of(n) + 1, n), SubSeq(p, 1, n_test_of(n)))
ShuffleSplit(n) ==
  IF n_train_of(n) = 0
  THEN SplitFailed("ValueError: the resulting train set will be empty")
  ELSE Cut(permutation(Iota(n), 1).arr, n)

\* sklearn's _approximate_mode(class_counts, n_draws, rng): the per-class
\* draw counts closest to the class proportions; the classes with the
\* largest remainders get the draws left over, ties broken by rng.choice.
RECURSIVE AddDraws(_, _, _, _, _)
Bump(floored, rem, values, need, c) ==
  AddDraws([i \in DOMAIN floored |->
              IF i \in Range(c.arr) THEN floored[i] + 1 ELSE floored[i]],
           rem, Tail(values), need - Len(c.arr), c.pos)
AddTo(floored, rem, values, need, pos, inds) ==
  Bump(floored, rem, values, need, choice(inds, Min(Len(inds), need), pos))
AddDraws(floored, rem, values, need, pos) ==
  IF need = 0 \/ values = <<>> THEN [arr |-> floored, pos |-> pos]
  ELSE AddTo(floored, rem, values, need, pos, WhereEq(rem, Head(values)))

Remainders(floored, rem, n_draws, pos) ==
  AddDraws(floored, rem, SortedDesc(Range(rem)), n_draws - SumSeq(floored), pos)
Proportional(class_counts, n_draws, pos, s) ==
  Remainders([i \in DOMAIN class_counts |-> (class_counts[i] * n_draws) \div s],
             [i \in DOMAIN class_counts |-> (class_counts[i] * n_draws) % s],
             n_draws, pos)
approximate_mode(class_counts, n_draws, pos) ==
  Proportional(class_counts, n_draws, pos, SumSeq(class_counts))

\* the per-class loop of StratifiedShuffleSplit._iter_indices: each class's
\* rows permuted, the first n_i[c] to train, the next t_i[c] to test
RECURSIVE ClassDraws(_, _, _, _, _)
Deal(perm_indices, n, t, rest) ==
  [train |-> SubSeq(perm_indices, 1, n) \o rest.train,
   test |-> SubSeq(perm_indices, n + 1, n + t) \o rest.test,
   pos |-> rest.pos]
DrawClass(class_indices, n_i, t_i, c, p) ==
  Deal([j \in DOMAIN p.arr |-> class_indices[c][p.arr[j]]], n_i[c], t_i[c],
       ClassDraws(class_indices, n_i, t_i, c + 1, p.pos))
ClassDraws(class_indices, n_i, t_i, c, pos) ==
  IF c > Len(class_indices) THEN [train |-> <<>>, test |-> <<>>, pos |-> pos]
  ELSE DrawClass(class_indices, n_i, t_i, c, permutation(Iota(Len(class_indices[c])), pos))

\* StratifiedShuffleSplit (stratify = y): yv is the target, row by row
ShuffleTest(train, test) == SplitInto(train.arr, permutation(test, train.pos).arr)
ShuffleBoth(d) == ShuffleTest(permutation(d.train, d.pos), d.test)
DrawTest(class_indices, ni, ti) ==
  ShuffleBoth(ClassDraws(class_indices, ni.arr, ti.arr, 1, ti.pos))
DrawTrain(class_indices, class_counts, n, ni) ==
  DrawTest(class_indices, ni,
           approximate_mode([c \in DOMAIN class_counts |-> class_counts[c] - ni.arr[c]],
                            n_test_of(n), ni.pos))
Stratify(n, class_indices, class_counts) ==
  IF n_train_of(n) = 0
  THEN SplitFailed("ValueError: the resulting train set will be empty")
  ELSE IF \E c \in DOMAIN class_counts : class_counts[c] < 2
  THEN SplitFailed("ValueError: the least populated class in y has only 1 member")
  ELSE IF n_train_of(n) < Len(class_counts)
  THEN SplitFailed("ValueError: train_size is less than the number of classes")
  ELSE IF n_test_of(n) < Len(class_counts)
  THEN SplitFailed("ValueError: test_size is less than the number of classes")
  ELSE DrawTrain(class_indices, class_counts, n,
                 approximate_mode(class_counts, n_train_of(n), 1))
ByClass(yv, class_indices) ==
  Stratify(Len(yv), class_indices, [c \in DOMAIN class_indices |-> Len(class_indices[c])])
Classes(yv, classes) ==
  ByClass(yv, [c \in DOMAIN classes |-> SortedAsc({i \in DOMAIN yv : yv[i] = classes[c]})])
StratifiedSplit(yv) == Classes(yv, SortedAsc(Range(yv)))

\* ----------------------------------------------------------------- tables
\* A DataFrame: n rows and a sequence of columns, each a record
\* [name, dtype, values] with values[i] the cell of row i.  None is the
\* value of a field that holds no table yet.
None == [none |-> TRUE, n |-> 0, cols |-> <<>>]
Frame(n, cols) == [none |-> FALSE, n |-> n, cols |-> cols]

ColNames(t) == [j \in DOMAIN t.cols |-> t.cols[j].name]
HasCol(t, name) == \E j \in DOMAIN t.cols : t.cols[j].name = name
Col(t, name) == t.cols[CHOOSE j \in DOMAIN t.cols : t.cols[j].name = name]

\* DataFrame.drop(columns=[name]) of a column that exists
Drop(t, name) ==
  LET Keep(c) == c.name # name IN Frame(t.n, SelectSeq(t.cols, Keep))

\* DataFrame.select_dtypes(include=dtypes)
SelectDtypes(t, dtypes) ==
  LET Keep(c) == c.dtype \in dtypes IN Frame(t.n, SelectSeq(t.cols, Keep))

\* DataFrame[names]: the named columns, in the order of names
Project(t, names) == Frame(t.n, [j \in DOMAIN names |-> Col(t, names[j])])

\* the rows idx of t, in the order of idx (what train_test_split hands back)
TakeRows(t, idx) ==
  Frame(Len(idx),
        [j \in DOMAIN t.cols |->
           [t.cols[j] EXCEPT !.values = [i \in DOMAIN idx |-> t.cols[j].values[idx[i]]]]])

\* a Series: the index labels of its rows and their values
Series(idx, vals) == [index |-> idx, values |-> [i \in DOMAIN idx |-> vals[idx[i]]]]

\* ----------------------------------------------------------- LabelEncoder
\* Strings are ordered as Python orders them; the categories a table may
\* hold, in that order.
Alphabet == << "F", "I", "II", "III", "M", "N", "S" >>
Rank(s) == CHOOSE r \in DOMAIN Alphabet : Alphabet[r] = s

\* LabelEncoder.fit: classes_ = np.unique(values), the sorted distinct values
LabelEncoderFit(values) ==
  LET ranks == SortedAsc({Rank(values[i]) : i \in DOMAIN values})
  IN  [classes_ |-> [r \in DOMAIN ranks |-> Alphabet[ranks[r]]]]

\* codes taken from a vocabulary fixed in advance instead of classes_
LabelEncoderTransformFixed(le, values) == [i \in DOMAIN values |-> Rank(values[i]) - 1]
\* LabelEncoder.transform: the 0-based position of each value in classes_
LabelEncoderTransform(le, values) ==
  [i \in DOMAIN values |->
     (CHOOSE r \in DOMAIN le.classes_ : le.classes_[r] = values[i]) - 1]

\* ------------------------------------------------------------------- chi2
\* sklearn.feature_selection.chi2 of one column: with O_c the column's sum
\* over the rows of class c, F its sum over all rows, n_c the class sizes
\* and n the row count, the score is sum_c (O_c - n_c F / n)^2 / (n_c F / n).
\* A class of size 0 (LabelBinarizer turns a single class into the pair
\* class / not-class) or F = 0 divides 0 by 0: the score is NaN.
NaN == [nan |-> TRUE, num |-> 0, den |-> 1]

RECURSIVE ProdSeq(_)
ProdSeq(s) == IF s = <<>> THEN 1 ELSE Head(s) * ProdSeq(Tail(s))

Chi2From(n, n_c, O, F) ==
  IF F = 0 \/ \E c \in DOMAIN n_c : n_c[c] = 0 THEN NaN
  ELSE [nan |-> FALSE,
        num |-> SumSeq([c \in DOMAIN n_c |->
                  (n * O[c] - n_c[c] * F) * (n * O[c] - n_c[c] * F)
                    * ProdSeq([d \in DOMAIN n_c |-> IF d = c THEN 1 ELSE n_c[d]])]),
        den |-> n * F * ProdSeq(n_c)]
Chi2Classes(values, yv, classes) ==
  IF Len(classes) = 1
  THEN Chi2From(Len(yv), <<Len(yv), 0>>, <<SumSeq(values), 0>>, SumSeq(values))
  ELSE Chi2From(Len(yv),
                [c \in DOMAIN classes |-> Cardinality({i \in DOMAIN yv : yv[i] = classes[c]})],
                [c \in DOMAIN classes |->
                   SumSeq([i \in DOMAIN yv |-> IF yv[i] = classes[c] THEN values[i] ELSE 0])],
                SumSeq(values))
Chi2Score(values, yv) == Chi2Classes(values, yv, SortedAsc(Range(yv)))

\* a < b on scores that are numbers
ScoreLess(a, b) == a.num * b.den < b.num * a.den

\* sort_values with ascending=True: worst first, NaN last
RECURSIVE SortNumbersAsc(_, _)
TakeWorst(scores, left, worst) == <<worst>> \o SortNumbersAsc(scores, left \ {worst})
SortNumbersAsc(scores, left) ==
  IF left = {} THEN <<>>
  ELSE TakeWorst(scores, left,
                 CHOOSE j \in left :
                   \A k \in left :
                      /\ ~ScoreLess(scores[k], scores[j])
                      /\ (~ScoreLess(scores[j], scores[k]) => j <= k))
SortValuesAsc(scores) ==
  SortNumbersAsc(scores, {j \in DOMAIN scores : ~scores[j].nan})
    \o SortedAsc({j \in DOMAIN scores : scores[j].nan})

\* DataFrame.sort_values(by=['Chi2_Scores'], ascending=False): positions by
\* descending score, equal scores in their original order, NaN last in
\* their original order (pandas' nargsort with na_position='last').
RECURSIVE SortNumbersDesc(_, _)
TakeBest(scores, left, best) == <<best>> \o SortNumbersDesc(scores, left \ {best})
SortNumbersDesc(scores, left) ==
  IF left = {} THEN <<>>
  ELSE TakeBest(scores, left,
                CHOOSE j \in left :
                  \A k \in left :
                     /\ ~ScoreLess(scores[j], scores[k])
                     /\ (~ScoreLess(scores[k], scores[j]) => j <= k))

SortValuesDesc(scores) ==
  SortNumbersDesc(scores, {j \in DOMAIN scores : ~scores[j].nan})
    \o SortedAsc({j \in DOMAIN scores : scores[j].nan})

\* chi2_scores.head(TopK)["Features"].tolist()
head(s, k) == SubSeq(s, 1, Min(k, Len(s)))

\* --------------------------------------------------------- StandardScaler
\* The scaler's state: for each feature the sum and the sum of squares of
\* the n_samples_seen_ rows it was fitted on (mean_ = sum / n,
\* var_ = sumsq / n - mean_^2).
Unfitted == [fitted |-> FALSE, n_samples_seen_ |-> 0, features |-> <<>>, stats |-> <<>>]

\* StandardScaler.partial_fit: the rows of t added to those already seen
ScalerPartialFit(old, t) ==
  IF old.fitted /\ old.features = ColNames(t)
  THEN [fitted |-> TRUE,
        n_samples_seen_ |-> old.n_samples_seen_ + t.n,
        features |-> old.features,
        stats |-> [j \in DOMAIN t.cols |->
                     [sum |-> old.stats[j].sum + SumSeq(t.cols[j].values),
                      sumsq |-> old.stats[j].sumsq
                                  + SumSeq([i \in DOMAIN t.cols[j].values |->
                                              t.cols[j].values[i] * t.cols[j].values[i]])]]]
  ELSE [fitted |-> TRUE,
        n_samples_seen_ |-> t.n,
        features |-> ColNames(t),
        stats |-> [j \in DOMAIN t.cols |->
                     [sum |-> SumSeq(t.cols[j].values),
                      sumsq |-> SumSeq([i \in DOMAIN t.cols[j].values |->
                                          t.cols[j].values[i] * t.cols[j].values[i]])]]]

\* StandardScaler.fit: forgets any earlier fit (_reset) and computes the
\* statistics of the rows of t
ScalerFit(old, t) ==
  [fitted |-> TRUE,
   n_samples_seen_ |-> t.n,
   features |-> ColNames(t),
   stats |-> [j \in DOMAIN t.cols |->
                [sum |-> SumSeq(t.cols[j].values),
                 sumsq |-> SumSeq([i \in DOMAIN t.cols[j].values |->
                                     t.cols[j].values[i] * t.cols[j].values[i]])]]]

\* (x - mean_) / scale_ kept exactly: num / sqrt(den2) when den2 > 0, and
\* num / n when den2 = 0 (a zero variance is scaled by 1)
Standardise(x, st, n) ==
  [num |-> n * x - st.sum, den2 |-> n * st.sumsq - st.sum * st.sum, n |-> n]

\* StandardScaler.transform: the rows of t as an array of scaled values
ScalerTransform(sc, t) ==
  [i \in 1..t.n |->
     [j \in DOMAIN t.cols |-> Standardise(t.cols[j].values[i], sc.stats[j], sc.n_samples_seen_)]]

\* ------------------------------------------------------------- the inputs
ID == "Patient_ID"
TARGET == "Survival_Prediction"

\* The feature columns an input table may carry, in file order; a table
\* carries the first k of them.  read_csv types a column of integers
\* int64, of True/False bool and of text object.  The cell of row i is
\* (i * mul) % mod, read as a number, a truth value or a category.
FeatureSchema ==
  << [name |-> "Gender",     dtype |-> "object", mul |-> 1, mod |-> 2, cats |-> <<"F", "M">>],
     [name |-> "Age",        dtype |-> "int64",  mul |-> 3, mod |-> 4, cats |-> <<>>],
     [name |-> "Smoker",     dtype |-> "bool",   mul |-> 1, mod |-> 2, cats |-> <<>>],
     [name |-> "Tumor_Size", dtype |-> "int64",  mul |-> 1, mod |-> 3, cats |-> <<>>],
     [name |-> "Stage",      dtype |-> "object", mul |-> 2, mod |-> 3, cats |-> <<"III", "I", "II">>],
     [name |-> "BMI",        dtype |-> "int64",  mul |-> 1, mod |-> 4, cats |-> <<>>],
     [name |-> "Visits",     dtype |-> "int64",  mul |-> 2, mod |-> 5, cats |-> <<>>],
     [name |-> "Polyps",     dtype |-> "int64",  mul |-> 1, mod |-> 1, cats |-> <<>>],
     [name |-> "Region",     dtype |-> "object", mul |-> 1, mod |-> 2, cats |-> <<"S", "N">>],
     [name |-> "Biopsies",   dtype |-> "int64",  mul |-> 1, mod |-> 2, cats |-> <<>>] >>

Cell(f, i) ==
  LET v == (i * f.mul) % f.mod
  IN  CASE f.dtype = "object" -> f.cats[v + 1]
        [] f.dtype = "bool" -> (v = 1)
        [] OTHER -> v

FeatureColumn(f, n) ==
  [name |-> f.name, dtype |-> f.dtype, values |-> [i \in 1..n |-> Cell(f, i)]]

\* the CSV file with k feature columns and target yv, with or without its
\* identifier and target columns; key tells the files apart
Csv(k, yv, hasId, hasTarget) ==
  [readable |-> TRUE,
   key |-> <<k, yv, hasId, hasTarget>>,
   table |-> Frame(Len(yv),
     (IF hasId THEN <<[name |-> ID, dtype |-> "int64",
                       values |-> [i \in DOMAIN yv |-> 100 + i]]>> ELSE <<>>)
     \o [j \in 1..k |-> FeatureColumn(FeatureSchema[j], Len(yv))]
     \o (IF hasTarget THEN <<[name |-> TARGET, dtype |-> "int64", values |-> yv]>>
         ELSE <<>>))]

\* a path that read_csv cannot read
Unreadable == [readable |-> FALSE, key |-> <<0, <<>>, FALSE, FALSE>>, table |-> None]

Targets == [1..NumRows -> {0, 1}]

\* the files a run may find: every complete table, an unreadable file, and
\* tables lacking the identifier or the target column
IsInput(f) ==
  \/ \E k \in 0..MaxFeatures, yv \in Targets : f = Csv(k, yv, TRUE, TRUE)
  \/ f = Unreadable
  \/ \E k \in 0..MaxFeatures, hasId, hasTarget \in BOOLEAN :
        /\ ~(hasId /\ hasTarget)
        /\ f = Csv(k, [i \in 1..NumRows |-> i % 2], hasId, hasTarget)

\* ---------------------------------------------------------------- the run
\* run() calls the stages in this order
Stages == << "load_data", "preprocess_data", "feature_selection",
             "split_and_scale", "save_data_and_scaler" >>

\* where run() goes when a stage returns
\* run() with the calls of lines 103 and 104 exchanged
NextStageExchanged(stage) ==
  CASE stage = "load_data" -> "preprocess_data"
    [] stage = "preprocess_data" -> "split_and_scale"
    [] stage = "split_and_scale" -> "feature_selection"
    [] stage = "feature_selection" -> "save_data_and_scaler"
    [] stage = "save_data_and_scaler" -> "return"

NextStage(stage) ==
  CASE stage = "load_data" -> "preprocess_data"
    [] stage = "preprocess_data" -> "feature_selection"
    [] stage = "feature_selection" -> "split_and_scale"
    [] stage = "split_and_scale" -> "save_data_and_scaler"
    [] stage = "save_data_and_scaler" -> "return"

\* logger.error(f"... : {e}") of each stage's except clause
ErrorText(stage) ==
  CASE stage = "load_data" -> "Error while loading Data"
    [] stage = "preprocess_data" -> "Error while processing Data"
    [] stage = "feature_selection" -> "Error while Feature selection"
    [] stage = "split_and_scale" -> "Error while splitting and scaling data"
    [] stage = "save_data_and_scaler" -> "Error while saving data"

\* the message of each stage's CustomException
FailMessage(stage) ==
  CASE stage = "load_data" -> "Failed to load data"
    [] stage = "preprocess_data" -> "Failed to process data"
    [] stage = "feature_selection" -> "Failed to select features"
    [] stage = "split_and_scale" -> "Failed to split and scale data"
    [] stage = "save_data_and_scaler" -> "Failed to save data"

NoException == [type |-> "none", message |-> "", cause |-> ""]

\* raise CustomException(message, e)
CustomException(message, e) == [type |-> "CustomException", message |-> message, cause |-> e]

\* every handler raising the loader's message
WrappedAsLoad(stage, e) == CustomException("Failed to load data", e)
\* what a stage's except clause raises for the exception e it caught
Wrapped(stage, e) == CustomException(FailMessage(stage), e)

Info(text) == [level |-> "INFO", text |-> text, e |-> ""]
Error(text, e) == [level |-> "ERROR", text |-> text, e |-> e]

NotCaught == [stage |-> "", e |-> ""]

\* the five artifacts, in the order save_data_and_scaler writes them
Artifacts == << "X_train.pkl", "X_test.pkl", "y_train.pkl", "y_test.pkl", "scaler.pkl" >>

Absent == [state |-> "absent"]
\* what an earlier pipeline run over other data left in the directory
Prior == [state |-> "prior"]
\* a file that a failed joblib.dump left truncated
Partial == [state |-> "partial"]
Dumped(obj) == [state |-> "dumped", obj |-> obj]

NoArrays == [set |-> FALSE, X_train |-> <<>>, X_test |-> <<>>,
             y_train |-> Series(<<>>, <<>>), y_test |-> Series(<<>>, <<>>)]

VARIABLES
  file,               \* the CSV at input_path
  dirWritable,        \* whether output_path can be written to
  disk,               \* the artifact files under output_path
  df, X, y,           \* self.df, self.X, self.y
  label_encoder,      \* self.label_encoder: column name -> encoder
  scaler,             \* self.scaler
  selected_features,  \* self.selected_features
  arrays,             \* X_train, X_test, y_train, y_test of run()
  pc,                 \* where run() is
  caught,             \* the exception an except clause holds
  raised,             \* the exception run() ended with
  log,                \* the log entries of this run
  started,            \* the stages this run has entered, in order
  chi2_index          \* X_train.index of feature_selection's chi2 fit

fields == <<df, X, y, label_encoder, scaler, selected_features>>
env == <<file, dirWritable>>
vars == <<file, dirWritable, disk, df, X, y, label_encoder, scaler,
          selected_features, arrays, pc, caught, raised, log, started, chi2_index>>

\* DataProcessing.__init__, with output_path made by os.makedirs
Constructed ==
  /\ df = None /\ X = None /\ y = <<>>
  /\ label_encoder = <<>>
  /\ scaler = Unfitted
  /\ selected_features = <<>>
  /\ arrays = NoArrays
  /\ pc = "idle"
  /\ caught = NotCaught
  /\ raised = NoException
  /\ log = <<>>
  /\ started = <<>>
  /\ chi2_index = <<>>

Init ==
  /\ IsInput(file)
  /\ dirWritable \in BOOLEAN
  /\ disk \in {[a \in Range(Artifacts) |-> Absent], [a \in Range(Artifacts) |-> Prior]}
  /\ Constructed

\* a stage's except clause: log the error, then (in Raise) raise
Except(stage, e) ==
  /\ log' = Append(log, Error(ErrorText(stage), e))
  /\ caught' = [stage |-> stage, e |-> e]
  /\ pc' = "raise"

\* a stage's normal return, after its logger.info calls
Return(stage, texts) ==
  /\ log' = log \o [i \in DOMAIN texts |-> Info(texts[i])]
  /\ pc' = NextStage(stage)
  /\ UNCHANGED caught

\* how a stage ends: by its except clause when its body raised
End(stage, r, texts) == IF r.ok THEN Return(stage, texts) ELSE Except(stage, r.cause)

\* the caller calls run()
Run ==
  /\ pc = "idle"
  /\ pc' = Stages[1]
  /\ UNCHANGED <<env, disk, fields, arrays, caught, raised, log, started, chi2_index>>

\* pd.read_csv(self.input_path)
ReadCsv(f, old) ==
  IF f.readable THEN [ok |-> TRUE, cause |-> "", df |-> f.table]
  ELSE [ok |-> FALSE, cause |-> "FileNotFoundError", df |-> old]

Loaded(r) ==
  /\ df' = r.df
  /\ End("load_data", r, <<"Data Loaded successfully">>)

load_data ==
  /\ pc = "load_data"
  /\ started' = Append(started, "load_data")
  /\ Loaded(ReadCsv(file, df))
  /\ UNCHANGED <<env, disk, X, y, label_encoder, scaler, selected_features,
                 arrays, raised, chi2_index>>

\* DataFrame.drop(columns=[name], errors='ignore')
DropColumnsIgnore(t, name) ==
  [ok |-> TRUE, t |-> IF HasCol(t, name) THEN Drop(t, name) ELSE t]
\* DataFrame.drop(columns=[name]): KeyError when the column is absent
DropColumns(t, name) ==
  IF HasCol(t, name) THEN [ok |-> TRUE, t |-> Drop(t, name)]
  ELSE [ok |-> FALSE, t |-> t]

\* lines 45-48: every object column replaced by its integer codes
EncodeColumns(t) ==
  Frame(t.n,
        [j \in DOMAIN t.cols |->
           IF t.cols[j].dtype = "object"
           THEN [name |-> t.cols[j].name, dtype |-> "int64",
                 values |-> LabelEncoderTransform(LabelEncoderFit(t.cols[j].values),
                                                  t.cols[j].values)]
           ELSE t.cols[j]])

\* self.label_encoder[col] = le on a dict, which keeps insertion order: a
\* sequence of [col, le]
Keys(dict) == {dict[i].col : i \in DOMAIN dict}
Get(dict, col) == dict[CHOOSE i \in DOMAIN dict : dict[i].col = col].le
SetItem(dict, col, le) ==
  IF col \in Keys(dict)
  THEN [i \in DOMAIN dict |-> IF dict[i].col = col THEN [col |-> col, le |-> le] ELSE dict[i]]
  ELSE Append(dict, [col |-> col, le |-> le])

\* line 49 over the loop of line 46: one encoder per object column of t
RECURSIVE StoreEncoders(_, _, _)
StoreEncoders(dict, t, j) ==
  IF j > Len(t.cols) THEN dict
  ELSE StoreEncoders(IF t.cols[j].dtype = "object"
                     THEN SetItem(dict, t.cols[j].name, LabelEncoderFit(t.cols[j].values))
                     ELSE dict,
                     t, j + 1)

\* The body of preprocess_data on the fields old = [df, X, y, label_encoder]:
\* the fields as the body leaves them, and the exception it raised if any.
Outcome(ok, cause, dfv, Xv, yv, dict) ==
  [ok |-> ok, cause |-> cause, df |-> dfv, X |-> Xv, y |-> yv, label_encoder |-> dict]
\* lines 43-49, with d1 = self.df and d2 = self.X of lines 41-42
Encode(old, d1, d2) ==
  IF ~HasCol(d1, TARGET)
  THEN Outcome(FALSE, "KeyError", d1, d2, old.y, old.label_encoder)
  ELSE Outcome(TRUE, "", d1, EncodeColumns(d2), Col(d1, TARGET).values,
               StoreEncoders(old.label_encoder, d2, 1))
\* line 42
DropTarget(old, d1, r2) ==
  IF ~r2.ok THEN Outcome(FALSE, "KeyError", d1, old.X, old.y, old.label_encoder)
  ELSE Encode(old, d1, r2.t)
\* line 41
DropId(old, r1) ==
  IF ~r1.ok THEN Outcome(FALSE, "KeyError", old.df, old.X, old.y, old.label_encoder)
  ELSE DropTarget(old, r1.t, DropColumns(r1.t, TARGET))
Preprocess(old) ==
  IF old.df.none
  THEN Outcome(FALSE, "AttributeError", old.df, old.X, old.y, old.label_encoder)
  ELSE DropId(old, DropColumns(old.df, ID))

Preprocessed(r) ==
  /\ df' = r.df
  /\ X' = r.X
  /\ y' = r.y
  /\ label_encoder' = r.label_encoder
  /\ End("preprocess_data", r, <<"Data processing - Label encoding done...">>)

preprocess_data ==
  /\ pc = "preprocess_data"
  /\ started' = Append(started, "preprocess_data")
  /\ Preprocessed(Preprocess([df |-> df, X |-> X, y |-> y, label_encoder |-> label_encoder]))
  /\ UNCHANGED <<env, disk, scaler, selected_features, arrays, raised, chi2_index>>

\* the dtypes line 59 keeps
Numeric == {"int64", "float64"}

\* lines 60-63: the chi2 score of every column of X_cat against y_train
Chi2Scores(X_cat, y_train) ==
  [j \in DOMAIN X_cat.cols |-> Chi2Score(X_cat.cols[j].values, y_train)]

\* lines 62-64: the features of the TopK best scores, best first
Ranked(X_cat, order) == [r \in DOMAIN order |-> X_cat.cols[order[r]].name]
TopFeatures(X_cat, y_train) ==
  head(Ranked(X_cat, SortValuesDesc(Chi2Scores(X_cat, y_train))), TopK)

\* The body of feature_selection on old = [X, y, selected_features,
\* chi2_index]: the fields as it leaves them, chi2_index the rows the
\* selector was fitted on.
Selection(ok, cause, Xv, sel, idx) ==
  [ok |-> ok, cause |-> cause, X |-> Xv, selected_features |-> sel, chi2_index |-> idx]
Unselected(old, cause) == Selection(FALSE, cause, old.X, old.selected_features, old.chi2_index)
\* lines 64-68
KeepTop(old, idx, top_features) ==
  Selection(TRUE, "", Project(old.X, top_features), top_features, idx)
\* lines 60-61: SelectKBest.fit validates X_cat, chi2 refuses negatives
FitSelector(old, idx, X_cat, y_train) ==
  IF X_cat.cols = <<>>
  THEN Unselected(old, "ValueError: Found array with 0 feature(s)")
  ELSE IF \E j \in DOMAIN X_cat.cols :
            \E i \in DOMAIN X_cat.cols[j].values : X_cat.cols[j].values[i] < 0
  THEN Unselected(old, "ValueError: Input X must be non-negative.")
  ELSE KeepTop(old, idx, TopFeatures(X_cat, y_train))
\* lines 58-59
Provisional(old, sp) ==
  IF ~sp.ok THEN Unselected(old, sp.cause)
  ELSE FitSelector(old, sp.train, SelectDtypes(TakeRows(old.X, sp.train), Numeric),
                   [i \in DOMAIN sp.train |-> old.y[sp.train[i]]])
FeatureSelection(old) ==
  IF old.X.none THEN Unselected(old, "TypeError")
  ELSE Provisional(old, ShuffleSplit(old.X.n))

Selected(r) ==
  /\ X' = r.X
  /\ selected_features' = r.selected_features
  /\ chi2_index' = r.chi2_index
  /\ End("feature_selection", r, <<"Selected features are", "Feature selection completed">>)

feature_selection ==
  /\ pc = "feature_selection"
  /\ started' = Append(started, "feature_selection")
  /\ Selected(FeatureSelection([X |-> X, y |-> y, selected_features |-> selected_features,
                                chi2_index |-> chi2_index]))
  /\ UNCHANGED <<env, disk, df, y, label_encoder, scaler, arrays, raised>>

\* a scaler fitted before the split, on every row
FitRowsAll(sp) == sp.train \o sp.test
\* line 77: the rows the scaler is fitted on are the training partition
FitRows(sp) == sp.train

\* The body of split_and_scale on old = [X, y, scaler, arrays]: the scaler
\* and the four arrays as it leaves them.
Scaled(ok, cause, sc, arr) == [ok |-> ok, cause |-> cause, scaler |-> sc, arrays |-> arr]
\* lines 77-82
Transform(old, sp, fitted) ==
  Scaled(TRUE, "", fitted,
         [set |-> TRUE,
          X_train |-> ScalerTransform(fitted, TakeRows(old.X, sp.train)),
          X_test |-> ScalerTransform(fitted, TakeRows(old.X, sp.test)),
          y_train |-> Series(sp.train, old.y),
          y_test |-> Series(sp.test, old.y)])
\* line 76
Final(old, sp) ==
  IF ~sp.ok THEN Scaled(FALSE, sp.cause, old.scaler, old.arrays)
  ELSE Transform(old, sp, ScalerFit(old.scaler, TakeRows(old.X, FitRows(sp))))
SplitAndScale(old) ==
  IF old.X.none THEN Scaled(FALSE, "TypeError", old.scaler, old.arrays)
  ELSE Final(old, StratifiedSplit(old.y))

SplitDone(r) ==
  /\ scaler' = r.scaler
  /\ arrays' = r.arrays
  /\ End("split_and_scale", r, <<"Splitting and scaling done successfully">>)

split_and_scale ==
  /\ pc = "split_and_scale"
  /\ started' = Append(started, "split_and_scale")
  /\ SplitDone(SplitAndScale([X |-> X, y |-> y, scaler |-> scaler, arrays |-> arrays]))
  /\ UNCHANGED <<env, disk, df, X, y, label_encoder, selected_features, raised, chi2_index>>

\* the test features dumped first
DumpOrderTestFirst(a, sc) == << a.X_test, a.X_train, a.y_train, a.y_test, sc >>
\* the objects lines 89-93 dump, in order
DumpOrder(a, sc) == << a.X_train, a.X_test, a.y_train, a.y_test, sc >>

\* The write that fails, if any: Len(Artifacts) + 1 when none does.  In a
\* directory that cannot be written to the first open fails.
FailPoints(writable) == IF writable THEN 1..(Len(Artifacts) + 1) ELSE {1}

Position(a) == CHOOSE j \in DOMAIN Artifacts : Artifacts[j] = a

\* the directory after the writes before the k-th; a k-th write that fails
\* leaves its file as it was or, once opened, truncated
Written(old, objs, k, truncated) ==
  [a \in Range(Artifacts) |->
     IF Position(a) < k THEN Dumped(objs[Position(a)])
     ELSE IF Position(a) = k /\ truncated THEN Partial
     ELSE old[a]]

\* a save that goes on after a failed write
DumpIgnoringErrors(k, writable) == [ok |-> TRUE, cause |-> ""]
Dump(k, writable) ==
  [ok |-> k > Len(Artifacts),
   cause |-> IF k > Len(Artifacts) THEN ""
             ELSE IF writable THEN "OSError" ELSE "PermissionError"]

save_data_and_scaler ==
  /\ pc = "save_data_and_scaler"
  /\ started' = Append(started, "save_data_and_scaler")
  /\ \E k \in FailPoints(dirWritable), truncated \in BOOLEAN :
       /\ truncated => (dirWritable /\ k <= Len(Artifacts))
       /\ disk' = Written(disk, DumpOrder(arrays, scaler), k, truncated)
       /\ End("save_data_and_scaler", Dump(k, dirWritable), <<"Files saved successfully">>)
  /\ UNCHANGED <<env, fields, arrays, raised, chi2_index>>

\* line 107: run() logs and returns
RunReturn ==
  /\ pc = "return"
  /\ log' = Append(log, Info("Data Processing pipeline executed successfully..."))
  /\ pc' = "done"
  /\ UNCHANGED <<env, disk, fields, arrays, caught, raised, started, chi2_index>>

\* raise CustomException(...) from an except clause: run() ends with it
Raise ==
  /\ pc = "raise"
  /\ raised' = Wrapped(caught.stage, caught.e)
  /\ pc' = "failed"
  /\ UNCHANGED <<env, disk, fields, arrays, caught, log, started, chi2_index>>

Next ==
  \/ Run
  \/ load_data
  \/ preprocess_data
  \/ feature_selection
  \/ split_and_scale
  \/ save_data_and_scaler
  \/ RunReturn
  \/ Raise

\* one run() of a fresh instance, over every input
Spec == Init /\ [][Next]_vars

\* ------------------------------------------------ the instance used again
\* The files an instance is run on again and again: a full table with two
\* balanced classes, a two-feature table with a single class, a table whose
\* second class has one member, a table without features, a table without
\* its identifier, and an unreadable file.
Alternating == [i \in 1..NumRows |-> i % 2]
IsRerunInput(f) ==
  \/ f = Csv(MaxFeatures, Alternating, TRUE, TRUE)
  \/ f = Csv(2, [i \in 1..NumRows |-> 0], TRUE, TRUE)
  \/ f = Csv(1, [i \in 1..NumRows |-> IF i = 1 THEN 1 ELSE 0], TRUE, TRUE)
  \/ f = Csv(0, Alternating, TRUE, TRUE)
  \/ f = Csv(MaxFeatures, Alternating, FALSE, TRUE)
  \/ f = Unreadable

InitRerun ==
  /\ IsRerunInput(file)
  /\ dirWritable \in BOOLEAN
  /\ disk = [a \in Range(Artifacts) |-> Absent]
  /\ Constructed

\* the caller calls run() again on the same instance, after it returned or
\* raised; the locals of the earlier call are gone
RunAgain ==
  /\ pc \in {"done", "failed"}
  /\ pc' = Stages[1]
  /\ arrays' = NoArrays
  /\ caught' = NotCaught
  /\ raised' = NoException
  /\ log' = <<>>
  /\ started' = <<>>
  /\ chi2_index' = <<>>
  /\ UNCHANGED <<env, disk, fields>>

\* between two runs the file at input_path is replaced by another
ReplaceInput ==
  /\ pc \in {"done", "failed"}
  /\ IsRerunInput(file')
  /\ file'.key # file.key \/ file'.readable # file.readable
  /\ UNCHANGED <<dirWritable, disk, fields, arrays, pc, caught, raised, log, started,
                 chi2_index>>

NextRerun == Next \/ RunAgain \/ ReplaceInput

SpecRerun == InitRerun /\ [][NextRerun]_vars

\* =============================================================== properties
Last(s) == s[Len(s)]
IsPrefix(s, t) == Len(s) <= Len(t) /\ s = SubSeq(t, 1, Len(s))
Logged(level) == \E i \in DOMAIN log : log[i].level = level
Touched(a) == disk[a].state \in {"dumped", "partial"}

\* C1: run() enters the stages in the order load_data, preprocess_data,
\* feature_selection, split_and_scale, save_data_and_scaler, each at most
\* once; once a stage has failed no later stage is entered, and an artifact
\* file is written only by a run whose first four stages all succeeded.
C1_StagesInOrder ==
  /\ IsPrefix(started, Stages)
  /\ pc \in Range(Stages) => pc = Stages[Len(started) + 1]
  /\ pc \in {"raise", "failed"} => (started # <<>> /\ Last(started) = caught.stage)
  /\ pc \in {"return", "done"} => started = Stages
  /\ Logged("ERROR") => pc \in {"raise", "failed"}
  /\ (\E a \in Range(Artifacts) : Touched(a)) =>
        /\ started = Stages
        /\ \A i \in 1..4 : log[i].level = "INFO"

\* a run that failed at split_and_scale: the save stage was never entered
\* and the directory is as it was found
C1_Witness ==
  /\ pc = "failed"
  /\ caught.stage = "split_and_scale"
  /\ started = SubSeq(Stages, 1, 4)
  /\ \A a \in Range(Artifacts) : ~Touched(a)

\* C2: a run that fails ends with a CustomException that carries the
\* failing stage's message and the exception the stage caught; the stage's
\* error entry is in the log before the exception is raised, and a run
\* that logged an error never goes on or returns normally.
C2_FailuresWrapped ==
  /\ pc = "raise" =>
        /\ raised = NoException
        /\ caught.stage = Last(started)
        /\ Last(log) = [level |-> "ERROR", text |-> ErrorText(caught.stage), e |-> caught.e]
  /\ pc = "failed" =>
        /\ raised.type = "CustomException"
        /\ raised.message =
             (CASE Last(started) = "load_data" -> "Failed to load data"
                [] Last(started) = "preprocess_data" -> "Failed to process data"
                [] Last(started) = "feature_selection" -> "Failed to select features"
                [] Last(started) = "split_and_scale" -> "Failed to split and scale data"
                [] Last(started) = "save_data_and_scaler" -> "Failed to save data")
        /\ raised.cause = caught.e /\ caught.e # ""
        /\ Last(log).level = "ERROR" /\ Last(log).e = raised.cause
  /\ pc \notin {"raise", "failed"} => (~Logged("ERROR") /\ raised = NoException)
  /\ (~file.readable /\ pc \notin {"idle", "load_data"}) => pc \in {"raise", "failed"}

\* a failed feature selection, wrapped
C2_Witness ==
  /\ pc = "failed"
  /\ raised = [type |-> "CustomException", message |-> "Failed to select features",
               cause |-> "ValueError: Found array with 0 feature(s)"]

\* the sum of column j of table t over the rows idx
SumOver(t, j, idx) == SumSeq([r \in DOMAIN idx |-> t.cols[j].values[idx[r]]])
SumSqOver(t, j, idx) ==
  SumSeq([r \in DOMAIN idx |-> t.cols[j].values[idx[r]] * t.cols[j].values[idx[r]]])

\* C3: after split_and_scale the scaler's statistics are those of the rows
\* of the final training partition alone, the training and the test array
\* are both the scaler's transform of their rows, and the scaler written
\* to scaler.pkl is that scaler.
C3_ScalerFitOnTrainOnly ==
  arrays.set =>
    LET tr == arrays.y_train.index
        te == arrays.y_test.index
        n == Len(tr)
        Z(x, j) == [num |-> n * x - SumOver(X, j, tr),
                    den2 |-> n * SumSqOver(X, j, tr) - SumOver(X, j, tr) * SumOver(X, j, tr),
                    n |-> n]
    IN  /\ Range(tr) \cap Range(te) = {}
        /\ Range(tr) \cup Range(te) = 1..X.n
        /\ scaler.fitted
        /\ scaler.n_samples_seen_ = n
        /\ \A j \in DOMAIN X.cols :
              /\ scaler.stats[j].sum = SumOver(X, j, tr)
              /\ scaler.stats[j].sumsq = SumSqOver(X, j, tr)
              /\ \A r \in DOMAIN tr : arrays.X_train[r][j] = Z(X.cols[j].values[tr[r]], j)
              /\ \A r \in DOMAIN te : arrays.X_test[r][j] = Z(X.cols[j].values[te[r]], j)
        /\ disk["scaler.pkl"].state = "dumped" => disk["scaler.pkl"].obj = scaler

\* a finished run whose test rows would have changed the statistics
C3_Witness ==
  /\ pc = "done"
  /\ disk["scaler.pkl"].state = "dumped"
  /\ \E j \in DOMAIN X.cols :
        SumOver(X, j, arrays.y_test.index) * Len(arrays.y_train.index)
          # SumOver(X, j, arrays.y_train.index) * Len(arrays.y_test.index)

\* C4: no row of the final test partition is among the rows the chi2
\* scores were computed from.
C4_SelectionNeverSeesTestRows ==
  arrays.set => Range(chi2_index) \cap Range(arrays.y_test.index) = {}

\* s is a better chi2 score than t: a number beats NaN, a larger number a
\* smaller one
Better(s, t) == ~s.nan /\ (t.nan \/ ScoreLess(t, s))

\* C5: a feature_selection that succeeds selects min(5, number of
\* int64/float64 columns of X) of these columns, best chi2 score first, no
\* column left out scoring better than one selected, and leaves X with
\* exactly the selected columns, in the order of selected_features.
C5_TopFiveByScore ==
  [][(pc = "feature_selection" /\ pc' = "split_and_scale") =>
       LET cand == {X.cols[j].name : j \in {i \in DOMAIN X.cols :
                                               X.cols[i].dtype \in {"int64", "float64"}}}
           rows == chi2_index'
           score(c) == Chi2Score([r \in DOMAIN rows |-> Col(X, c).values[rows[r]]],
                                 [r \in DOMAIN rows |-> y[rows[r]]])
           sel == selected_features'
       IN  /\ Len(sel) = Min(5, Cardinality(cand))
           /\ Range(sel) \subseteq cand
           /\ Cardinality(Range(sel)) = Len(sel)
           /\ \A a, b \in DOMAIN sel : a < b => ~Better(score(sel[b]), score(sel[a]))
           /\ \A u \in cand \ Range(sel) : \A a \in DOMAIN sel : ~Better(score(u), score(sel[a]))
           /\ ColNames(X') = sel
           /\ X'.n = X.n
           /\ \A j \in DOMAIN sel : X'.cols[j] = Col(X, sel[j])
  ]_vars

\* eight candidates of which five were kept, the best not the first column
C5_Witness ==
  /\ pc = "split_and_scale"
  /\ Len(df.cols) >= 9
  /\ Len(selected_features) = 5
  /\ ColNames(X) = selected_features
  /\ selected_features[1] = "Visits"

\* C6: when the loaded table has no Patient_ID or no Survival_Prediction
\* column, preprocess_data raises the processing error caused by the
\* KeyError, and no later stage is entered.
C6_MissingColumnFails ==
  (file.readable /\ (~HasCol(file.table, "Patient_ID")
                       \/ ~HasCol(file.table, "Survival_Prediction"))) =>
     /\ pc \in {"idle", "load_data", "preprocess_data", "raise", "failed"}
     /\ Len(started) <= 2
     /\ pc \in {"raise", "failed"} =>
          caught = [stage |-> "preprocess_data", e |-> "KeyError"]
     /\ pc = "failed" =>
          raised = [type |-> "CustomException", message |-> "Failed to process data",
                    cause |-> "KeyError"]
     /\ ~arrays.set
     /\ \A a \in Range(Artifacts) : ~Touched(a)

\* a table with the identifier but without the target
C6_Witness ==
  /\ pc = "failed"
  /\ HasCol(file.table, "Patient_ID")
  /\ ~HasCol(file.table, "Survival_Prediction")
  /\ raised.message = "Failed to process data"
  /\ started = <<"load_data", "preprocess_data">>

\* The stages before the save on a newly constructed instance reading f.
FreshPreprocess(f) ==
  Preprocess([df |-> f.table, X |-> None, y |-> <<>>, label_encoder |-> <<>>])
FreshSelection(p) ==
  FeatureSelection([X |-> p.X, y |-> p.y, selected_features |-> <<>>, chi2_index |-> <<>>])
FreshSplit(p, s) ==
  SplitAndScale([X |-> s.X, y |-> p.y, scaler |-> Unfitted, arrays |-> NoArrays])
\* f is a table the first four stages accept
Processable(f) ==
  /\ f.readable
  /\ FreshPreprocess(f).ok
  /\ FreshSelection(FreshPreprocess(f)).ok
  /\ FreshSplit(FreshPreprocess(f), FreshSelection(FreshPreprocess(f))).ok

\* C7: with an output directory that cannot be written to, a run over a
\* table the earlier stages accept fails at save_data_and_scaler and
\* nowhere before, with the save error caused by the refused write; the
\* failing save and the raise leave X, y, selected_features,
\* label_encoder, scaler and the four arrays as split_and_scale left them.
C7_UnwritableFailsAtSave ==
  /\ [](~dirWritable =>
          /\ pc \notin {"return", "done"}
          /\ (Processable(file) /\ pc \in {"raise", "failed"}) =>
                caught = [stage |-> "save_data_and_scaler", e |-> "PermissionError"]
          /\ (pc = "failed" /\ Last(started) = "save_data_and_scaler") =>
                raised = [type |-> "CustomException", message |-> "Failed to save data",
                          cause |-> "PermissionError"])
  /\ [][(~dirWritable /\ pc = "save_data_and_scaler") =>
          /\ pc' = "raise"
          /\ arrays.set /\ scaler.fitted
          /\ UNCHANGED <<df, X, y, selected_features, label_encoder, scaler, arrays, disk>>]_vars
  /\ [][(~dirWritable /\ pc = "raise") =>
          UNCHANGED <<df, X, y, selected_features, label_encoder, scaler, arrays, disk>>]_vars

\* the failed save of a run that had selected, split and scaled
C7_Witness ==
  /\ ~dirWritable
  /\ pc = "failed"
  /\ raised.message = "Failed to save data"
  /\ arrays.set /\ scaler.fitted
  /\ Len(selected_features) = 5
  /\ Len(label_encoder) = 2

\* C9: save_data_and_scaler writes X_train.pkl, X_test.pkl, y_train.pkl,
\* y_test.pkl, scaler.pkl in this order: with k the write that fails (6 if
\* none does), the files before the k-th hold this run's objects, the
\* files after it are as they were, the k-th is as it was or truncated;
\* the save returns when no write failed and raises the save error
\* otherwise.
C9_WritesInOrder ==
  /\ [][pc = "save_data_and_scaler" =>
          LET names == <<"X_train.pkl", "X_test.pkl", "y_train.pkl", "y_test.pkl",
                         "scaler.pkl">>
              new == [a \in Range(names) |->
                        CASE a = "X_train.pkl" -> [state |-> "dumped", obj |-> arrays.X_train]
                          [] a = "X_test.pkl" -> [state |-> "dumped", obj |-> arrays.X_test]
                          [] a = "y_train.pkl" -> [state |-> "dumped", obj |-> arrays.y_train]
                          [] a = "y_test.pkl" -> [state |-> "dumped", obj |-> arrays.y_test]
                          [] a = "scaler.pkl" -> [state |-> "dumped", obj |-> scaler]]
          IN  /\ DOMAIN disk' = Range(names)
              /\ \E k \in 1..6 :
                   /\ \A j \in 1..5 : j < k => disk'[names[j]] = new[names[j]]
                   /\ \A j \in 1..5 : j > k => disk'[names[j]] = disk[names[j]]
                   /\ k <= 5 =>
                        /\ disk'[names[k]] = disk[names[k]] \/ disk'[names[k]].state = "partial"
                        /\ pc' = "raise"
                        /\ caught'.stage = "save_data_and_scaler"
                   /\ k = 6 => pc' = "return"]_vars
  /\ [][(pc = "raise" /\ caught.stage = "save_data_and_scaler") =>
          (raised'.type = "CustomException" /\ raised'.message = "Failed to save data")]_vars

\* the third write failed: two new files, one truncated, two old ones
C9_Witness ==
  /\ pc = "failed"
  /\ raised.message = "Failed to save data"
  /\ disk["X_train.pkl"] = [state |-> "dumped", obj |-> arrays.X_train]
  /\ disk["X_test.pkl"] = [state |-> "dumped", obj |-> arrays.X_test]
  /\ disk["y_train.pkl"].state = "partial"
  /\ disk["y_test.pkl"].state = "prior"
  /\ disk["scaler.pkl"].state = "prior"

\* C8: whatever an instance ran before, a run over the table f gives the
\* selected features, the reduced X, the scaler, the scaled arrays and
\* the target partitions that a newly constructed instance gives for f,
\* and fails where and as the new instance fails.
C8_Deterministic ==
  file.readable =>
    LET p == FreshPreprocess(file)
        s == FreshSelection(p)
        f == FreshSplit(p, s)
    IN  /\ pc = "feature_selection" => (p.ok /\ X = p.X /\ y = p.y)
        /\ pc = "split_and_scale" =>
              (s.ok /\ selected_features = s.selected_features /\ X = s.X)
        /\ pc \in {"save_data_and_scaler", "return"} =>
              /\ f.ok
              /\ selected_features = s.selected_features
              /\ arrays = f.arrays
              /\ scaler = f.scaler
        /\ (pc = "raise" /\ caught.stage = "preprocess_data") =>
              (~p.ok /\ p.cause = caught.e)
        /\ (pc = "raise" /\ caught.stage = "feature_selection") =>
              (~s.ok /\ s.cause = caught.e)
        /\ (pc = "raise" /\ caught.stage = "split_and_scale") =>
              (~f.ok /\ f.cause = caught.e)

\* a run about to save what the same instance's earlier run saved, its
\* label_encoder still holding a column of a table read in between
C8_Witness ==
  /\ pc = "save_data_and_scaler"
  /\ arrays.set
  /\ disk["X_train.pkl"].state = "dumped"
  /\ disk["X_train.pkl"].obj = arrays.X_train
  /\ disk["scaler.pkl"].state = "dumped"
  /\ disk["scaler.pkl"].obj = scaler
  /\ "Stage" \in Keys(label_encoder)
  /\ ~HasCol(file.table, "Stage")

\* the feature columns of the loaded table, as loaded
LoadedFeatures(t) ==
  LET Feature(c) == c.name \notin {"Patient_ID", "Survival_Prediction"}
  IN  SelectSeq(t.cols, Feature)
StringColumns(t) ==
  {LoadedFeatures(t)[j].name : j \in {i \in DOMAIN LoadedFeatures(t) :
                                        LoadedFeatures(t)[i].dtype = "object"}}
\* X, y and the encoders of the string-typed columns after preprocess_data
\* of the table t
EncodedFrom(t) ==
  LET cols == LoadedFeatures(t)
  IN  /\ X.n = t.n
      /\ ColNames(X) = [j \in DOMAIN cols |-> cols[j].name]
      /\ \A j \in DOMAIN X.cols : X.cols[j].dtype # "object"
      /\ \A j \in DOMAIN cols :
           IF cols[j].dtype = "object"
           THEN /\ cols[j].name \in Keys(label_encoder)
                /\ LET classes == Get(label_encoder, cols[j].name).classes_
                       observed == Range(cols[j].values)
                       codes == X.cols[j].values
                   IN  /\ Range(classes) = observed
                       /\ Len(classes) = Cardinality(observed)
                       /\ Range(codes) = 0..(Cardinality(observed) - 1)
                       /\ \A i \in DOMAIN codes : classes[codes[i] + 1] = cols[j].values[i]
           ELSE X.cols[j] = cols[j]
      /\ y = Col(t, "Survival_Prediction").values

\* C10 as stated: after a successful preprocess_data X has the loaded
\* columns but the identifier and the target, none string-typed, every
\* string-typed column filled with the codes 0..k-1 of a bijective encoder,
\* the other columns and y as loaded, and the keys of label_encoder are
\* exactly the string-typed feature columns.
C10_KeysExactlyStringColumns ==
  pc = "feature_selection" =>
    (EncodedFrom(file.table) /\ Keys(label_encoder) = StringColumns(file.table))

\* C10: as above, but the keys of label_encoder are the string-typed
\* feature columns together with the keys it held before the call, whose
\* encoders are kept: exactly the string-typed columns on an instance's
\* first run only.
C10_KeysIncludeStringColumns ==
  /\ [](pc = "feature_selection" =>
          (EncodedFrom(file.table) /\ StringColumns(file.table) \subseteq Keys(label_encoder)))
  /\ [][(pc = "preprocess_data" /\ pc' = "feature_selection") =>
          /\ Keys(label_encoder') = Keys(label_encoder) \cup StringColumns(file.table)
          /\ \A c \in Keys(label_encoder) \ StringColumns(file.table) :
                Get(label_encoder', c) = Get(label_encoder, c)
          /\ label_encoder = <<>> => Keys(label_encoder') = StringColumns(file.table)]_vars

\* a second table preprocessed by an instance that had encoded Stage before
C10_Witness ==
  /\ pc = "feature_selection"
  /\ StringColumns(file.table) = {"Gender"}
  /\ Keys(label_encoder) = {"Gender", "Stage"}
  /\ Range(Col(X, "Gender").values) = {0, 1}

====
